---- MODULE Spec2Model ----
(***************************************************************************)
(* Model of EnhancedSecurityAnalyzer (src/model.py): the analysis          *)
(* orchestrator analyze_contract, the code resolver                        *)
(* _get_contract_code_with_validation, the five sub-analyses launched by   *)
(* asyncio.gather and the risk compilation.                                *)
(*                                                                         *)
(* Python values are modelled structurally: a dict is a TLA+ record with   *)
(* the same keys, a list is a sequence, dict.get(k, d) is Get(d, k, dflt). *)
(* Floats are exact rationals in units of 1/One, so 1.0 is One.            *)
(* datetime.now().isoformat() is the constant Timestamp.                   *)
(*                                                                         *)
(* Spec: the analyzer serves one call at a time, of analyze_contract or of  *)
(* the resolver.  SpecTwice: analyze_contract is called again and again    *)
(* with the same arguments, and prev keeps the observed chain state and    *)
(* the score of the previous successful call.  SpecScore: the scoring      *)
(* functions applied to drawn reports.  SpecScan: the pattern scan applied *)
(* to a drawn text.  SpecStartup: the construction of the analyzer,        *)
(* followed by operations on the chains it could not connect.              *)
(* SpecShared: Spec with callers that change the results they hold.        *)
(*                                                                         *)
(* Spec starts from an analyzer whose construction bound any subset of the *)
(* chains, each on its first endpoint; what later calls do depends on the  *)
(* table's keys only.                                                      *)
(***************************************************************************)
EXTENDS Integers, Sequences, FiniteSets, TLC

VARIABLES
    web3_connections,   \* self.web3_connections: chain name -> bound endpoint
    vulnerability_patterns, \* self.vulnerability_patterns: the detectors, in order
    probeLog,           \* the is_connected() probes made at construction, in order
    caller,             \* entry point of the call in progress
    pc,                 \* position of the call in progress
    contract_address,   \* argument of the call
    chain,              \* argument of the call
    probes,             \* is_connected() calls made by this call
    attempt,            \* loop variable of the resolver's for loop
    fetchLog,           \* outcomes of web3.eth.get_code, one per fetch of this call
    sleeps,             \* arguments of asyncio.sleep made by this call, in order
    contract_code,      \* what the resolver returned (None before that)
    task_result,        \* result of each of the five gathered tasks
    order,              \* the tasks in the order in which they finished
    block_outcome,      \* outcome of the behavioural task's block-number call
    result,             \* what the call returned (or raised) to its caller
    prev                \* summary of the previous successful analyze_contract call

vars == <<web3_connections, vulnerability_patterns, probeLog, caller, pc, contract_address, chain, probes, attempt,
          fetchLog, sleeps, contract_code, task_result, order, block_outcome,
          result, prev>>

-----------------------------------------------------------------------------
(* Bounds of the model *)

\* longest fetched payload, in pairs of hex characters ("0x" is one pair)
MaxHexPairs == 2

\* most findings of a scan report given to the scoring functions
MaxFindings == 2

\* most external calls of an attack-surface report given to the scoring
MaxCalls == 2

\* most patterns of a behaviour report given to the scoring functions
MaxPatterns == 1
MaxFailing == 1

-----------------------------------------------------------------------------
(* Python values *)

Str(s) == [type |-> "str", value |-> s]
NoneArg == [type |-> "NoneType", value |-> ""]
IntArg == [type |-> "int", value |-> "42"]

\* bool(x) of an argument
Truthy(x) == IF x.type = "str" THEN x.value # "" ELSE x.type # "NoneType"

\* isinstance(x, str)
IsStr(x) == x.type = "str"

\* The value None, and "no value yet"
None == [none |-> TRUE]
Pending == [pending |-> TRUE]

\* dict.get(key, default)
Get(d, key, default) == IF key \in DOMAIN d THEN d[key] ELSE default

\* An exception object (raised, or captured by gather) and its contrary; an
\* exception object has no .get: using it as a dict raises AttributeError
IsException(x) == "raises" \in DOMAIN x
IsDict(x) == ~IsException(x)

Min(a, b) == IF a <= b THEN a ELSE b
Max(a, b) == IF a >= b THEN a ELSE b

Range(s) == {s[i] : i \in DOMAIN s}

RECURSIVE SumSeq(_)
SumSeq(s) == IF s = <<>> THEN 0 ELSE Head(s) + SumSeq(Tail(s))

\* 1.0 in the fixed-point unit of the scores: divisible by 1000 and by 1..7
One == 42 * 100000

Timestamp == "datetime.now().isoformat()"

-----------------------------------------------------------------------------
(* Inputs and environment *)

ValidAddress == Str("0x52908400098527886E0F7030069857D2E4169EE7")

Addresses == {ValidAddress, Str("0x123"), Str(""), IntArg}

\* Web3.is_address(value)
IsAddress(a) == a = ValidAddress

\* the endpoints table of _initialize_web3_connections (hosts only)
endpoints ==
    [ethereum |-> <<"mainnet.infura.io", "eth-mainnet.g.alchemy.com",
                    "cloudflare-eth.com">>,
     bsc |-> <<"bsc-dataseed1.binance.org", "bsc-dataseed2.binance.org">>,
     polygon |-> <<"polygon-rpc.com", "rpc-mainnet.matic.network">>]

\* endpoints.items(): the networks in the order of the table
Networks == <<"ethereum", "bsc", "polygon">>

\* keys of the endpoints table probed at startup
SupportedChains == {"ethereum", "bsc", "polygon"}

\* one is_connected() probe of the startup
Probe(network, url, outcome) == [network |-> network, url |-> url, outcome |-> outcome]

\* the probes of a startup in which the networks of `bound` answer on their
\* first endpoint and the other networks on none
FirstEndpointProbes(network, bound) ==
    IF network \in bound
    THEN <<Probe(network, endpoints[network][1], "true")>>
    ELSE [i \in DOMAIN endpoints[network] |->
             Probe(network, endpoints[network][i], "false")]

StartupLog(bound) ==
    FirstEndpointProbes("ethereum", bound) \o FirstEndpointProbes("bsc", bound)
        \o FirstEndpointProbes("polygon", bound)

Chains == {Str(c) : c \in SupportedChains} \cup {Str("unsupported-chain"), Str(""), NoneArg}

\* `chain in self.web3_connections`
InTable(ch, table) == ch.type = "str" /\ ch.value \in DOMAIN table

\* names of self.vulnerability_patterns, in declaration order
Detectors == <<"reentrancy", "overflow", "timestamp_dependency",
               "unchecked_external_call", "arbitrary_jump", "delegatecall",
               "self_destruct">>

\* The detectors whose pattern matches a payload: the payload's text is
\* abstracted to this set and its length.  The scan is modelled for any text:
\* the text .hex() yields holds hex digits only, which none of the patterns of
\* vulnerability_patterns matches, so the non-empty sets stand for what the
\* scan reports on text that does match.
MatchSets == {{}, {"delegatecall"}, {"overflow", "timestamp_dependency"}}

\* Payloads web3.eth.get_code(address).hex() can yield: the empty string and
\* "0x" match nothing.
Payloads == {[len |-> 2 * n, matches |-> m] : n \in 0..MaxHexPairs, m \in MatchSets}
            \ {p \in [len : 0..2, matches : MatchSets] : p.matches # {}}

\* Outcomes of web3.eth.get_code(address).hex(): an exception or a payload
FetchOutcomes == {[raises |-> "Exception"]} \cup {[hex |-> p] : p \in Payloads}

\* Outcomes of web3.is_connected()
ProbeOutcomes == {"true", "false", "raises"}

\* Outcomes of `await web3.eth.get_block_number()`
BlockNumberOutcomes == {"ok", "raises"}

Tasks == 1..5

-----------------------------------------------------------------------------
(* Validation and error responses *)

\* _validate_inputs without the Web3.is_address check
ValidateInputsNoSyntaxCheck(address, ch) ==
    /\ Truthy(address) /\ Truthy(ch)
    /\ IsStr(address) /\ IsStr(ch)

\* _validate_inputs(contract_address, chain)
ValidateInputs(address, ch) ==
    IF ~Truthy(address) \/ ~Truthy(ch) THEN FALSE
    ELSE IF ~IsStr(address) \/ ~IsStr(ch) THEN FALSE
    ELSE IF ~IsAddress(address) THEN FALSE
    ELSE TRUE

\* _format_error_response(message, details): `details` is None when not given
FormatErrorResponse(message, details) ==
    IF details = None
    THEN [error |-> message, timestamp |-> Timestamp, success |-> FALSE]
    ELSE [error |-> message, timestamp |-> Timestamp, success |-> FALSE,
          details |-> details]

\* _get_connection_status(chain)
GetConnectionStatus(ch, table) ==
    [connected |-> InTable(ch, table), chain |-> ch,
     provider_url |-> IF InTable(ch, table) THEN table[ch.value] ELSE "None"]

\* A raised exception, as the value that reaches a handler
Raise(type, message) == [raises |-> type, message |-> message]

\* the except clauses of analyze_contract without the catch-all clause
HandleExceptionValidationOnly(exc) ==
    IF exc.raises = "ContractValidationError"
    THEN FormatErrorResponse(exc.message, None)
    ELSE exc

\* the except clauses of analyze_contract
HandleException(exc) ==
    IF exc.raises = "ContractValidationError"
    THEN FormatErrorResponse(exc.message, None)
    ELSE FormatErrorResponse("Unexpected error during analysis",
                             [error_type |-> exc.raises, error_message |-> exc.message])

-----------------------------------------------------------------------------
(* The code resolver *)

\* condition of line 112 never taken
ChainNotSupportedNeverRaised(ch, table) == FALSE

\* `chain not in self.web3_connections` at the head of the resolver
ChainNotSupported(ch, table) == ~InTable(ch, table)

retry_count == 3
retry_delay == 1

\* _safe_get_code: web3.eth.get_code(address).hex(), None when it raises
SafeGetCode(outcome) == IF "raises" \in DOMAIN outcome THEN None ELSE outcome.hex

\* `not code or len(code) <= 2`
NoDeployedCode(code) == code = None \/ code.len = 0 \/ code.len <= 2

\* The loop body treating absent code as a transient failure of the fetch
LoopBodyRetriesEmpty(address, outcome) ==
    IF ~IsAddress(address)
    THEN Raise("ContractValidationError", "Invalid contract address format")
    ELSE LET code == SafeGetCode(outcome) IN
         IF IsException(code) THEN code
         ELSE IF NoDeployedCode(code) THEN Raise("Exception", "no code")
         ELSE [returns |-> code]

\* The body of one iteration of the resolver's loop, given the outcome of the
\* fetch it makes: [returns |-> v], or the exception it raises.
LoopBody(address, outcome) ==
    IF ~IsAddress(address)
    THEN Raise("ContractValidationError", "Invalid contract address format")
    ELSE LET code == SafeGetCode(outcome) IN
         IF IsException(code) THEN code
         ELSE IF NoDeployedCode(code) THEN [returns |-> None]
         ELSE [returns |-> code]

\* whether the iteration reaches the fetch
Fetches(address) == IsAddress(address)

-----------------------------------------------------------------------------
(* The sub-analyses *)

\* a severity lookup that knows no detector
DetermineVulnerabilitySeverityDefault(vuln_type) == "medium"

\* _determine_vulnerability_severity(vuln_type)
DetermineVulnerabilitySeverity(vuln_type) ==
    CASE vuln_type = "reentrancy" -> "critical"
      [] vuln_type = "overflow" -> "high"
      [] vuln_type = "timestamp_dependency" -> "medium"
      [] vuln_type = "unchecked_external_call" -> "high"
      [] vuln_type = "arbitrary_jump" -> "critical"
      [] vuln_type = "delegatecall" -> "critical"
      [] vuln_type = "self_destruct" -> "critical"
      [] OTHER -> "medium"

\* the static confidence 0.8 of a pattern match, in tenths
PatternConfidence == 8

\* re.search(pattern, code) for the pattern of detector vuln_type: it raises
\* when code is no string, and for the detectors a scanned text names as
\* failing
Search(vuln_type, code) ==
    IF "matches" \notin DOMAIN code THEN "raises"
    ELSE IF "failing" \in DOMAIN code /\ vuln_type \in code.failing THEN "raises"
    ELSE IF vuln_type \in code.matches THEN "match"
    ELSE "no match"

\* the for loop of _analyze_code_security: a matcher that raises is caught
\* inside the iteration and the loop goes on
RECURSIVE ScanLoop(_, _, _)
ScanLoop(patterns, code, vulnerabilities) ==
    IF patterns = <<>> THEN vulnerabilities
    ELSE LET vuln_type == Head(patterns) IN
         ScanLoop(Tail(patterns), code,
                  IF Search(vuln_type, code) = "match"
                  THEN Append(vulnerabilities,
                              [type |-> vuln_type,
                               severity |-> DetermineVulnerabilitySeverity(vuln_type),
                               pattern_match |-> TRUE,
                               confidence |-> PatternConfidence])
                  ELSE vulnerabilities)

\* _analyze_code_security without the try around the matcher: the first
\* matcher that raises ends the scan with its exception
AnalyzeCodeSecurityUnguarded(code) ==
    IF \E i \in DOMAIN vulnerability_patterns :
           Search(vulnerability_patterns[i], code) = "raises"
    THEN Raise("Exception", "re.search")
    ELSE [vulnerabilities |-> ScanLoop(vulnerability_patterns, code, <<>>)]

\* _analyze_code_security(code)
AnalyzeCodeSecurity(code) ==
    [vulnerabilities |-> ScanLoop(vulnerability_patterns, code, <<>>)]

\* self._assess_call_risk(event): the class defines no such method
AssessCallRisk(event) == Raise("AttributeError", "_assess_call_risk")

\* the for loop of _check_attack_surface; an exception ends it
RECURSIVE SurfaceLoop(_, _)
SurfaceLoop(events, calls) ==
    IF events = <<>> THEN calls
    ELSE IF Head(events).external
         THEN LET risk == AssessCallRisk(Head(events)) IN
              IF IsException(risk) THEN calls
              ELSE SurfaceLoop(Tail(events),
                               Append(calls, [name |-> Head(events).name,
                                              risk |-> risk.returns]))
         ELSE SurfaceLoop(Tail(events), calls)

\* What web3.eth.contract(address).events yields: an exception, or events,
\* each with whether 'external' occurs in its string
SurfaceOutcomes ==
    { [raises |-> "Exception"],
      [events |-> <<>>],
      [events |-> <<[name |-> "Transfer", external |-> FALSE]>>],
      [events |-> <<[name |-> "Transfer", external |-> FALSE],
                    [name |-> "external_call", external |-> TRUE]>>] }

\* _check_attack_surface(contract_address, chain)
CheckAttackSurface(ch, table, outcome) ==
    LET surface == [external_calls |-> <<>>, permissions |-> <<>>,
                    dependencies |-> <<>>]
    IN IF ~InTable(ch, table) THEN surface
       ELSE IF "raises" \in DOMAIN outcome THEN surface
       ELSE [surface EXCEPT !.external_calls = SurfaceLoop(outcome.events, <<>>)]

\* _monitor_cross_chain_activity(contract_address)
MonitorCrossChainActivity ==
    [cross_chain_transfers |-> <<>>, bridge_interactions |-> <<>>,
     suspicious_patterns |-> <<>>, timestamp |-> Timestamp]

\* A dict entry that holds an attribute of the analyzer itself (the same
\* object, not a copy of it): reading it yields the attribute's value of the
\* moment, writing through it writes the attribute.
SelfRef(attribute) == [ref |-> attribute]

IsSelfRef(value) == IsDict(value) /\ "ref" \in DOMAIN value

\* _get_threat_intelligence()
GetThreatIntelligence ==
    [known_attacks |->
        << [type |-> "flash_loan_attack", severity |-> "critical",
            indicators |-> <<"multiple_dex_calls", "large_borrowing">>],
           [type |-> "front_running", severity |-> "high",
            indicators |-> <<"high_gas_price", "similar_transactions">>],
           [type |-> "honeypot", severity |-> "critical",
            indicators |-> <<"restricted_withdrawals", "hidden_fee_logic">>] >>,
     recent_incidents |-> <<>>,
     threat_indicators |->
        [high_risk_patterns |-> SelfRef("vulnerability_patterns"),
         suspicious_behaviors |-> <<"unusual_gas_patterns",
                                    "frequent_ownership_changes",
                                    "irregular_activity_spikes">>],
     timestamp |-> Timestamp]

\* _analyze_behavioral_patterns(contract_address, chain); severity 0.5 is in tenths
AnalyzeBehavioralPatterns(ch, table, outcome) ==
    LET behavior_analysis ==
            [behavioral_patterns |-> <<>>, activity_spikes |-> <<>>,
             gas_usage_patterns |-> <<>>, interaction_patterns |-> <<>>,
             timestamp |-> Timestamp]
    IN IF ~InTable(ch, table) THEN behavior_analysis
       ELSE IF outcome = "raises"
       THEN [error |-> "Behavioral analysis failed", timestamp |-> Timestamp]
       ELSE [behavior_analysis EXCEPT !.behavioral_patterns =
                <<[type |-> "transaction_frequency", severity |-> 5,
                   description |-> "Normal transaction frequency observed"]>>]

-----------------------------------------------------------------------------
(* Risk scoring.  Weights, confidences and severities of findings are in   *)
(* tenths, pattern weights in hundredths; every risk is in units of 1/One. *)

\* severity_weights.get(severity, 0.5), in tenths
SeverityWeight(severity) ==
    CASE severity = "critical" -> 10
      [] severity = "high" -> 8
      [] severity = "medium" -> 5
      [] severity = "low" -> 2
      [] OTHER -> 5

\* _calculate_vulnerability_risk dividing by a constant instead of the count
CalculateVulnerabilityRiskNoMean(code_security) ==
    LET vulnerabilities == Get(code_security, "vulnerabilities", <<>>)
        vuln_risk == [i \in DOMAIN vulnerabilities |->
                         SeverityWeight(Get(vulnerabilities[i], "severity", "medium"))
                         * Get(vulnerabilities[i], "confidence", 10)]
    IN IF vulnerabilities = <<>> THEN 0
       ELSE Min(One, SumSeq(vuln_risk) * (One \div 100))

\* _calculate_vulnerability_risk(code_security)
CalculateVulnerabilityRisk(code_security) ==
    LET vulnerabilities == Get(code_security, "vulnerabilities", <<>>)
        vuln_risk == [i \in DOMAIN vulnerabilities |->
                         SeverityWeight(Get(vulnerabilities[i], "severity", "medium"))
                         * Get(vulnerabilities[i], "confidence", 10)]
        total_risk == SumSeq(vuln_risk) * (One \div 100)
    IN IF vulnerabilities = <<>> THEN 0
       ELSE Min(One, total_risk \div Len(vulnerabilities))

\* _calculate_surface_risk(attack_surface)
CalculateSurfaceRisk(attack_surface) ==
    LET external_calls == Get(attack_surface, "external_calls", <<>>)
        dependencies == Get(attack_surface, "dependencies", <<>>)
        high == SelectSeq(external_calls, LAMBDA c : Get(c, "risk", "low") = "high")
        surface_risk == Len(external_calls) * (One \div 10)
                        + Len(dependencies) * (One \div 20)
                        + Len(high) * (One \div 5)
    IN Min(One, surface_risk)

\* risk_factors with an entry for the pattern type the profiler emits
PatternWeightKnowsFrequency(pattern_type) ==
    CASE pattern_type = "high_value_transfers" -> 30
      [] pattern_type = "frequent_ownership_changes" -> 20
      [] pattern_type = "unusual_gas_patterns" -> 15
      [] pattern_type = "irregular_activity_spikes" -> 25
      [] pattern_type = "failed_transactions" -> 10
      [] pattern_type = "transaction_frequency" -> 20
      [] OTHER -> 0

\* risk_factors of _calculate_behavioral_risk, in hundredths
PatternWeight(pattern_type) ==
    CASE pattern_type = "high_value_transfers" -> 30
      [] pattern_type = "frequent_ownership_changes" -> 20
      [] pattern_type = "unusual_gas_patterns" -> 15
      [] pattern_type = "irregular_activity_spikes" -> 25
      [] pattern_type = "failed_transactions" -> 10
      [] OTHER -> 0

\* _calculate_behavioral_risk(behavior)
CalculateBehavioralRisk(behavior) ==
    LET patterns == Get(behavior, "behavioral_patterns", <<>>)
        terms == [i \in DOMAIN patterns |->
                     PatternWeight(Get(patterns[i], "type", ""))
                     * Get(patterns[i], "severity", 5)]
    IN IF patterns = <<>> THEN 0
       ELSE Min(One, SumSeq(terms) * (One \div 1000))

\* _calculate_overall_risk reporting the score in percent, unclamped
CalculateOverallRiskPercent(code_security, attack_surface, behavior) ==
    IF IsDict(code_security) /\ IsDict(attack_surface) /\ IsDict(behavior)
    THEN (CalculateVulnerabilityRisk(code_security) * 40
          + CalculateSurfaceRisk(attack_surface) * 30
          + CalculateBehavioralRisk(behavior) * 30)
    ELSE 0

\* _calculate_overall_risk with the weights of the scan and of the attack
\* surface exchanged
CalculateOverallRiskSwapped(code_security, attack_surface, behavior) ==
    IF IsDict(code_security) /\ IsDict(attack_surface) /\ IsDict(behavior)
    THEN Max(0, Min(One, (CalculateVulnerabilityRisk(code_security) * 3
                          + CalculateSurfaceRisk(attack_surface) * 4
                          + CalculateBehavioralRisk(behavior) * 3) \div 10))
    ELSE 0

\* _calculate_overall_risk(code_security, attack_surface, behavior): any
\* exception (an argument that is no dict) yields 0.0
CalculateOverallRisk(code_security, attack_surface, behavior) ==
    IF IsDict(code_security) /\ IsDict(attack_surface) /\ IsDict(behavior)
    THEN LET overall_risk ==
                 (CalculateVulnerabilityRisk(code_security) * 4
                  + CalculateSurfaceRisk(attack_surface) * 3
                  + CalculateBehavioralRisk(behavior) * 3) \div 10
         IN Max(0, Min(One, overall_risk))
    ELSE 0

\* _compile_analysis_results(results): unpacking anything but five results
\* raises, which the function turns into its error result
CompileAnalysisResults(results) ==
    IF Len(results) = 5
    THEN [risk_score |-> CalculateOverallRisk(results[1], results[2], results[5]),
          code_security |-> results[1],
          attack_surface |-> results[2],
          cross_chain_activity |-> results[3],
          threats |-> results[4],
          behavioral_analysis |-> results[5],
          timestamp |-> Timestamp]
    ELSE [error |-> "Failed to compile results", timestamp |-> Timestamp]

-----------------------------------------------------------------------------
(* asyncio.gather(..., return_exceptions=True) *)

\* gather returning as soon as one task has finished
GatherFirstCompleted(finished) == finished # <<>>

\* gather returns once every task has finished (returned or raised)
GatherDone(finished) == Range(finished) = Tasks

\* the results in the order in which the tasks finished
GatherResultsAsCompleted(results, finished) ==
    [i \in 1..5 |-> IF i <= Len(finished) THEN results[finished[i]] ELSE Pending]

\* the results gather returns: in the order of its arguments
GatherResults(results, finished) == [i \in 1..5 |-> results[i]]

-----------------------------------------------------------------------------
(* State machine *)

NoPrev == [none |-> TRUE]

\* what the finished call leaves in prev when the next call starts
Remember ==
    IF caller = "analyze_contract" /\ pc = "returned" /\ "risk_score" \in DOMAIN result
    THEN [address |-> contract_address, chain |-> chain, code |-> contract_code,
          block_outcome |-> block_outcome, risk_score |-> result.risk_score,
          in_order |-> (order = <<1, 2, 3, 4, 5>>)]
    ELSE prev

\* the per-call state at the start of a call
StartCall(entry, address, ch) ==
    /\ pc \in {"idle", "returned"}
    /\ caller' = entry
    /\ contract_address' = address
    /\ chain' = ch
    /\ probes' = 0
    /\ attempt' = 0
    /\ fetchLog' = <<>>
    /\ sleeps' = <<>>
    /\ contract_code' = None
    /\ task_result' = [i \in Tasks |-> Pending]
    /\ order' = <<>>
    /\ block_outcome' = "none"
    /\ UNCHANGED <<web3_connections, vulnerability_patterns, probeLog>>

\* the call in progress ends with value v (returned, or raised to the caller)
Finish(v) ==
    /\ result' = v
    /\ pc' = "returned"

\* an exception raised inside the resolver reaches the resolver's caller:
\* analyze_contract's handlers, or the direct caller
Propagate(exc) ==
    IF caller = "analyze_contract" THEN Finish(HandleException(exc)) ELSE Finish(exc)

Init ==
    /\ \E bound \in SUBSET SupportedChains :
         /\ web3_connections = [network \in bound |-> endpoints[network][1]]
         /\ probeLog = StartupLog(bound)
    /\ vulnerability_patterns = Detectors
    /\ caller = "none"
    /\ pc = "idle"
    /\ contract_address = NoneArg
    /\ chain = NoneArg
    /\ probes = 0
    /\ attempt = 0
    /\ fetchLog = <<>>
    /\ sleeps = <<>>
    /\ contract_code = None
    /\ task_result = [i \in Tasks |-> Pending]
    /\ order = <<>>
    /\ block_outcome = "none"
    /\ result = Pending
    /\ prev = NoPrev

\* analyze_contract is called: input validation
AnalyzeContractCall(address, ch) ==
    /\ StartCall("analyze_contract", address, ch)
    /\ IF ~ValidateInputs(address, ch)
       THEN Finish(FormatErrorResponse("Invalid contract address or chain", None))
       ELSE /\ pc' = "check_connection"
            /\ result' = Pending

AnalyzeContract(address, ch) ==
    /\ AnalyzeContractCall(address, ch)
    /\ UNCHANGED prev

\* analyze_contract is called with the arguments of the call before it, whose
\* outcome is remembered
AnalyzeContractAgain(address, ch) ==
    /\ caller = "analyze_contract" => address = contract_address /\ ch = chain
    /\ AnalyzeContractCall(address, ch)
    /\ prev' = Remember

\* the connection check dropping from the table a connection whose probe
\* did not answer true
CheckWeb3ConnectionEvicting ==
    /\ pc = "check_connection"
    /\ IF ~InTable(chain, web3_connections)
       THEN /\ Finish(FormatErrorResponse("No connection available for chain", None))
            /\ UNCHANGED <<probes, web3_connections>>
       ELSE /\ probes' = probes + 1
            /\ \E outcome \in ProbeOutcomes :
                 IF outcome = "true"
                 THEN pc' = "resolve" /\ UNCHANGED <<result, web3_connections>>
                 ELSE /\ Finish(FormatErrorResponse("No connection available for chain", None))
                      /\ web3_connections' =
                             [n \in DOMAIN web3_connections \ {chain.value} |->
                                 web3_connections[n]]
    /\ UNCHANGED <<vulnerability_patterns, probeLog, caller, contract_address,
                   chain, attempt, fetchLog, sleeps, contract_code,
                   task_result, order, block_outcome, prev>>

\* _check_web3_connection(chain) and the branch of analyze_contract on it
CheckWeb3Connection ==
    /\ pc = "check_connection"
    /\ IF ~InTable(chain, web3_connections)
       THEN /\ Finish(FormatErrorResponse("No connection available for chain", None))
            /\ UNCHANGED probes
       ELSE /\ probes' = probes + 1
            /\ \E outcome \in ProbeOutcomes :
                 CASE outcome = "true" -> pc' = "resolve" /\ UNCHANGED result
                   [] outcome = "false" ->
                        Finish(FormatErrorResponse("No connection available for chain", None))
                   [] outcome = "raises" ->
                        Finish(HandleException(Raise("Exception", "is_connected")))
    /\ UNCHANGED <<web3_connections, vulnerability_patterns, probeLog,
                   caller, contract_address, chain, attempt,
                   fetchLog, sleeps, contract_code, task_result, order,
                   block_outcome, prev>>

\* _get_contract_code_with_validation is called directly
GetContractCodeWithValidation(address, ch) ==
    /\ StartCall("resolver", address, ch)
    /\ pc' = "resolve"
    /\ result' = Pending
    /\ UNCHANGED prev

\* head of the resolver: the chain check and the connection lookup
ResolverEnter ==
    /\ pc = "resolve"
    /\ IF ChainNotSupported(chain, web3_connections)
       THEN Propagate(Raise("ContractValidationError", "Chain not supported"))
       ELSE IF ~InTable(chain, web3_connections)
       THEN Propagate(Raise("KeyError", "web3_connections[chain]"))
       ELSE pc' = "attempt" /\ UNCHANGED result
    /\ attempt' = 0
    /\ UNCHANGED <<web3_connections, vulnerability_patterns, probeLog,
                   caller, contract_address, chain, probes,
                   fetchLog, sleeps, contract_code, task_result, order,
                   block_outcome, prev>>

\* `not contract_code` never true
NotContractCodeNever(code) == FALSE

\* `not contract_code`
NotContractCode(code) == code = None \/ code.len = 0

\* the resolver returns `code` to its caller: analyze_contract goes on with
\* the check of the code and the launch of the gather
ResolverReturns(code) ==
    /\ contract_code' = code
    /\ IF caller = "analyze_contract"
       THEN IF NotContractCode(code)
            THEN Finish(FormatErrorResponse(
                     "Could not retrieve contract code",
                     [chain |-> chain, contract_address |-> contract_address,
                      connection_status |-> GetConnectionStatus(chain, web3_connections)]))
            ELSE pc' = "gather" /\ UNCHANGED result
       ELSE Finish([returns |-> code])

\* one iteration of the resolver's retry loop
ResolverAttempt ==
    /\ pc = "attempt"
    /\ \E outcome \in FetchOutcomes :
         LET body == LoopBody(contract_address, outcome) IN
         /\ fetchLog' = IF Fetches(contract_address) THEN Append(fetchLog, outcome)
                        ELSE fetchLog
         /\ IF "returns" \in DOMAIN body
            THEN ResolverReturns(body.returns) /\ UNCHANGED <<attempt, sleeps>>
            ELSE IF body.raises = "ContractValidationError"
            THEN Propagate(body) /\ UNCHANGED <<attempt, sleeps, contract_code>>
            ELSE IF attempt = retry_count - 1
            THEN ResolverReturns(None) /\ UNCHANGED <<attempt, sleeps>>
            ELSE /\ sleeps' = Append(sleeps, retry_delay * (attempt + 1))
                 /\ attempt' = attempt + 1
                 /\ UNCHANGED <<pc, result, contract_code>>
    /\ UNCHANGED <<web3_connections, vulnerability_patterns, probeLog,
                   caller, contract_address, chain, probes,
                   task_result, order, block_outcome, prev>>

\* a gathered task finishes with value v
TaskFinishes(i, v) ==
    /\ pc = "gather"
    /\ i \notin Range(order)
    /\ task_result' = [task_result EXCEPT ![i] = v]
    /\ order' = Append(order, i)
    /\ UNCHANGED <<web3_connections, vulnerability_patterns, probeLog,
                   caller, pc, contract_address, chain, probes,
                   attempt, fetchLog, sleeps, contract_code, result, prev>>

RunCodeSecurity ==
    /\ TaskFinishes(1, AnalyzeCodeSecurity(contract_code))
    /\ UNCHANGED block_outcome

RunAttackSurface ==
    /\ \E outcome \in SurfaceOutcomes :
         TaskFinishes(2, CheckAttackSurface(chain, web3_connections, outcome))
    /\ UNCHANGED block_outcome

RunCrossChain ==
    /\ TaskFinishes(3, MonitorCrossChainActivity)
    /\ UNCHANGED block_outcome

RunThreatIntelligence ==
    /\ TaskFinishes(4, GetThreatIntelligence)
    /\ UNCHANGED block_outcome

RunBehavioralPatterns ==
    \E outcome \in BlockNumberOutcomes :
        /\ TaskFinishes(5, AnalyzeBehavioralPatterns(chain, web3_connections, outcome))
        /\ block_outcome' = outcome

\* the gather returns and analyze_contract returns the compiled results
Compile ==
    /\ pc = "gather"
    /\ GatherDone(order)
    /\ Finish(CompileAnalysisResults(GatherResults(task_result, order)))
    /\ UNCHANGED <<web3_connections, vulnerability_patterns, probeLog,
                   caller, contract_address, chain, probes,
                   attempt, fetchLog, sleeps, contract_code, task_result, order,
                   block_outcome, prev>>

Next ==
    \/ \E address \in Addresses, ch \in Chains : AnalyzeContract(address, ch)
    \/ \E address \in Addresses, ch \in Chains : GetContractCodeWithValidation(address, ch)
    \/ CheckWeb3Connection
    \/ ResolverEnter
    \/ ResolverAttempt
    \/ RunCodeSecurity
    \/ RunAttackSurface
    \/ RunCrossChain
    \/ RunThreatIntelligence
    \/ RunBehavioralPatterns
    \/ Compile

Spec == Init /\ [][Next]_vars

\* Repeated calls of analyze_contract with identical arguments
NextTwice ==
    \/ \E address \in Addresses, ch \in Chains : AnalyzeContractAgain(address, ch)
    \/ CheckWeb3Connection
    \/ ResolverEnter
    \/ ResolverAttempt
    \/ RunCodeSecurity
    \/ RunAttackSurface
    \/ RunCrossChain
    \/ RunThreatIntelligence
    \/ RunBehavioralPatterns
    \/ Compile

SpecTwice == Init /\ [][NextTwice]_vars

-----------------------------------------------------------------------------
(* The scoring functions, called on reports of every shape *)

SeqsUpTo(S, n) == UNION {[1..k -> S] : k \in 0..n}

\* a finding as _analyze_code_security writes it
Finding(type, severity, confidence) ==
    [type |-> type, severity |-> severity, pattern_match |-> TRUE,
     confidence |-> confidence]

FindingKinds ==
    { Finding("delegatecall", "critical", 8), Finding("delegatecall", "critical", 10),
      Finding("overflow", "high", 8), Finding("timestamp_dependency", "medium", 8),
      Finding("informational", "low", 8), Finding("informational", "low", 10) }

CodeSecurityReports ==
    {[vulnerabilities |-> v] : v \in SeqsUpTo(FindingKinds, MaxFindings)}

EmptySurface == [external_calls |-> <<>>, permissions |-> <<>>, dependencies |-> <<>>]

HighRiskCall == [name |-> "external_call", risk |-> "high"]

\* the reports of bounded size, and one whose sum exceeds 1.0
SurfaceReports ==
    {[external_calls |-> c, permissions |-> <<>>, dependencies |-> d] :
        c \in SeqsUpTo({[name |-> "external_call", risk |-> "low"], HighRiskCall}, MaxCalls),
        d \in {<<>>, <<"dependency">>}}
    \cup {[EmptySurface EXCEPT !.external_calls = [i \in 1..4 |-> HighRiskCall]]}

EmptyBehavior ==
    [behavioral_patterns |-> <<>>, activity_spikes |-> <<>>,
     gas_usage_patterns |-> <<>>, interaction_patterns |-> <<>>,
     timestamp |-> Timestamp]

PatternKinds ==
    [type : {"high_value_transfers", "unusual_gas_patterns", "transaction_frequency"},
     severity : {5, 10}]

\* the reports of bounded size, the error object of a failed analysis, and a
\* report whose sum exceeds 1.0
BehaviorReports ==
    {[EmptyBehavior EXCEPT !.behavioral_patterns = p] :
        p \in SeqsUpTo(PatternKinds, MaxPatterns)}
    \cup {[error |-> "Behavioral analysis failed", timestamp |-> Timestamp],
          [EmptyBehavior EXCEPT !.behavioral_patterns =
              [i \in 1..4 |-> [type |-> "high_value_transfers", severity |-> 10]]]}

\* _compile_analysis_results or _calculate_vulnerability_risk is about to be
\* called on reports held in task_result
InitScore ==
    /\ web3_connections = [network \in SupportedChains |-> endpoints[network][1]]
    /\ probeLog = StartupLog(SupportedChains)
    /\ vulnerability_patterns = Detectors
    /\ caller \in {"_compile_analysis_results", "_calculate_vulnerability_risk"}
    /\ pc = "called"
    /\ contract_address = NoneArg
    /\ chain = NoneArg
    /\ probes = 0
    /\ attempt = 0
    /\ fetchLog = <<>>
    /\ sleeps = <<>>
    /\ contract_code = None
    /\ \E cs \in CodeSecurityReports, surface \in SurfaceReports, behavior \in BehaviorReports :
         /\ caller = "_calculate_vulnerability_risk" =>
               surface = EmptySurface /\ behavior = EmptyBehavior
         /\ task_result = <<cs, surface, MonitorCrossChainActivity,
                            GetThreatIntelligence, behavior>>
    /\ order = <<1, 2, 3, 4, 5>>
    /\ block_outcome = "none"
    /\ result = Pending
    /\ prev = NoPrev

\* _compile_analysis_results(results)
CompileAnalysisResultsCall ==
    /\ caller = "_compile_analysis_results"
    /\ pc = "called"
    /\ Finish(CompileAnalysisResults(task_result))
    /\ UNCHANGED <<web3_connections, vulnerability_patterns, probeLog,
                   caller, contract_address, chain, probes,
                   attempt, fetchLog, sleeps, contract_code, task_result, order,
                   block_outcome, prev>>

\* _calculate_vulnerability_risk(code_security)
CalculateVulnerabilityRiskCall ==
    /\ caller = "_calculate_vulnerability_risk"
    /\ pc = "called"
    /\ Finish([returns |-> CalculateVulnerabilityRisk(task_result[1])])
    /\ UNCHANGED <<web3_connections, vulnerability_patterns, probeLog,
                   caller, contract_address, chain, probes,
                   attempt, fetchLog, sleeps, contract_code, task_result, order,
                   block_outcome, prev>>

NextScore == CompileAnalysisResultsCall \/ CalculateVulnerabilityRiskCall

SpecScore == InitScore /\ [][NextScore]_vars


-----------------------------------------------------------------------------
(* The pattern scan on its own: _analyze_code_security is applied to a     *)
(* text given by the detectors whose pattern matches it and the detectors  *)
(* whose matcher fails on it.                                              *)

DetectorNames == Range(Detectors)

ScanInputs ==
    {[len |-> 2 * MaxHexPairs, matches |-> m, failing |-> f] :
        m \in SUBSET DetectorNames,
        f \in {g \in SUBSET DetectorNames : Cardinality(g) <= MaxFailing}}
    \cup {None}

\* _analyze_code_security is about to be called on contract_code
InitScan ==
    /\ web3_connections = [network \in SupportedChains |-> endpoints[network][1]]
    /\ probeLog = StartupLog(SupportedChains)
    /\ vulnerability_patterns = Detectors
    /\ caller = "_analyze_code_security"
    /\ pc = "called"
    /\ contract_address = NoneArg
    /\ chain = NoneArg
    /\ probes = 0
    /\ attempt = 0
    /\ fetchLog = <<>>
    /\ sleeps = <<>>
    /\ contract_code \in ScanInputs
    /\ task_result = [i \in Tasks |-> Pending]
    /\ order = <<>>
    /\ block_outcome = "none"
    /\ result = Pending
    /\ prev = NoPrev

\* _analyze_code_security(code)
AnalyzeCodeSecurityCall ==
    /\ caller = "_analyze_code_security"
    /\ pc = "called"
    /\ Finish([returns |-> AnalyzeCodeSecurity(contract_code)])
    /\ UNCHANGED <<web3_connections, vulnerability_patterns, probeLog,
                   caller, contract_address, chain, probes, attempt, fetchLog,
                   sleeps, contract_code, task_result, order, block_outcome,
                   prev>>

NextScan == AnalyzeCodeSecurityCall

SpecScan == InitScan /\ [][NextScan]_vars

-----------------------------------------------------------------------------
(* Construction: _initialize_web3_connections probes the endpoints, then   *)
(* operations are run against the chains that got no connection.           *)

\* the probes made of the endpoints of `network`, in order
ProbesOf(log, network) == SelectSeq(log, LAMBDA probe : probe.network = network)

\* the loop over a network's urls without its `break`
UrlsDoneNoBreak(log, network) ==
    Len(ProbesOf(log, network)) = Len(endpoints[network])

\* the loop over a network's urls is over: a probe answered true (`break`)
\* or every url was probed
UrlsDone(log, network) ==
    \/ \E i \in DOMAIN ProbesOf(log, network) :
           ProbesOf(log, network)[i].outcome = "true"
    \/ Len(ProbesOf(log, network)) = Len(endpoints[network])

\* the networks whose urls are still to be probed, in the order of the table
Remaining(log) == SelectSeq(Networks, LAMBDA network : ~UrlsDone(log, network))

\* __init__ has set web3_connections = {} and calls _initialize_web3_connections
InitStartup ==
    /\ web3_connections = [network \in {} |-> ""]
    /\ probeLog = <<>>
    /\ vulnerability_patterns = None
    /\ caller = "__init__"
    /\ pc = "startup"
    /\ contract_address = NoneArg
    /\ chain = NoneArg
    /\ probes = 0
    /\ attempt = 0
    /\ fetchLog = <<>>
    /\ sleeps = <<>>
    /\ contract_code = None
    /\ task_result = [i \in Tasks |-> Pending]
    /\ order = <<>>
    /\ block_outcome = "none"
    /\ result = Pending
    /\ prev = NoPrev

\* one iteration of the loop over urls: Web3(...).is_connected() answers
\* true (the network is bound, break), answers false, or raises (continue)
ProbeEndpoint ==
    /\ pc = "startup"
    /\ Remaining(probeLog) # <<>>
    /\ LET network == Head(Remaining(probeLog))
           url == endpoints[network][Len(ProbesOf(probeLog, network)) + 1]
       IN \E outcome \in ProbeOutcomes :
            /\ probeLog' = Append(probeLog, Probe(network, url, outcome))
            /\ web3_connections' =
                   IF outcome = "true"
                   THEN [n \in DOMAIN web3_connections \cup {network} |->
                            IF n = network THEN url ELSE web3_connections[n]]
                   ELSE web3_connections
    /\ UNCHANGED <<vulnerability_patterns, caller, pc, contract_address, chain,
                   probes, attempt, fetchLog, sleeps, contract_code,
                   task_result, order, block_outcome, result, prev>>

\* _initialize_web3_connections is over; __init__ sets the patterns and returns
ConstructorReturns ==
    /\ pc = "startup"
    /\ Remaining(probeLog) = <<>>
    /\ vulnerability_patterns' = Detectors
    /\ pc' = "idle"
    /\ UNCHANGED <<web3_connections, probeLog, caller, contract_address, chain,
                   probes, attempt, fetchLog, sleeps, contract_code,
                   task_result, order, block_outcome, result, prev>>

\* a supported chain that got no connection
Unavailable(ch) == ch \in SupportedChains /\ ch \notin DOMAIN web3_connections

\* analyze_contract on a chain that got no connection
AnalyzeContractUnavailable ==
    \E ch \in SupportedChains :
        Unavailable(ch) /\ AnalyzeContract(ValidAddress, Str(ch))

\* _check_attack_surface on a chain that got no connection
CheckAttackSurfaceUnavailable ==
    \E ch \in SupportedChains, outcome \in SurfaceOutcomes :
        /\ Unavailable(ch)
        /\ StartCall("_check_attack_surface", ValidAddress, Str(ch))
        /\ Finish([returns |-> CheckAttackSurface(Str(ch), web3_connections, outcome)])
        /\ UNCHANGED prev

\* _analyze_behavioral_patterns on a chain that got no connection
AnalyzeBehavioralPatternsUnavailable ==
    \E ch \in SupportedChains, outcome \in BlockNumberOutcomes :
        /\ Unavailable(ch)
        /\ StartCall("_analyze_behavioral_patterns", ValidAddress, Str(ch))
        /\ Finish([returns |-> AnalyzeBehavioralPatterns(Str(ch), web3_connections, outcome)])
        /\ UNCHANGED prev

NextStartup ==
    \/ ProbeEndpoint
    \/ ConstructorReturns
    \/ AnalyzeContractUnavailable
    \/ CheckWeb3Connection
    \/ CheckAttackSurfaceUnavailable
    \/ AnalyzeBehavioralPatternsUnavailable

SpecStartup == InitStartup /\ [][NextStartup]_vars

-----------------------------------------------------------------------------
(* Callers that change what they were returned: between the calls of Spec, *)
(* the caller of analyze_contract deletes an entry of the dict its result  *)
(* holds under threats.threat_indicators.high_risk_patterns.               *)

\* the keys a caller deletes
DeletedPatterns == {"delegatecall"}

\* `del result['threats']['threat_indicators']['high_risk_patterns'][vuln_type]`
\* by the caller that holds `result`: the dict is the analyzer's own when the
\* entry holds it, and a part of the result alone otherwise
CallerDeletesPattern ==
    /\ caller = "analyze_contract"
    /\ pc = "returned"
    /\ "threats" \in DOMAIN result
    /\ "threat_indicators" \in DOMAIN result.threats
    /\ LET held == result.threats.threat_indicators.high_risk_patterns IN
       \E vuln_type \in DeletedPatterns :
           IF IsSelfRef(held)
           THEN /\ vuln_type \in Range(vulnerability_patterns)
                /\ vulnerability_patterns' =
                       SelectSeq(vulnerability_patterns, LAMBDA d : d # vuln_type)
                /\ UNCHANGED result
           ELSE /\ vuln_type \in Range(held)
                /\ result' = [result EXCEPT
                                 !.threats.threat_indicators.high_risk_patterns =
                                     SelectSeq(held, LAMBDA d : d # vuln_type)]
                /\ UNCHANGED vulnerability_patterns
    /\ UNCHANGED <<web3_connections, probeLog, caller, pc, contract_address,
                   chain, probes, attempt, fetchLog, sleeps, contract_code,
                   task_result, order, block_outcome, prev>>

NextShared == Next \/ CallerDeletesPattern

SpecShared == Init /\ [][NextShared]_vars
-----------------------------------------------------------------------------
(* Properties *)

\* the inputs pass validation: non-empty strings, the address well formed
InputsValid ==
    /\ Truthy(contract_address) /\ Truthy(chain)
    /\ IsStr(contract_address) /\ IsStr(chain)
    /\ IsAddress(contract_address)

Returned == caller = "analyze_contract" /\ pc = "returned"

ReportKeys == {"code_security", "attack_surface", "cross_chain_activity",
               "threats", "behavioral_analysis"}

\* a dict with an error string, or one with the score and the five reports
StructuredResult(r) ==
    /\ IsDict(r)
    /\ r # Pending
    /\ \/ "error" \in DOMAIN r /\ r.error \in STRING
       \/ ReportKeys \cup {"risk_score", "timestamp"} \subseteq DOMAIN r

\* C1: whatever the inputs and whichever of the connection probe, the code
\* fetch and the sub-analyses fail, analyze_contract returns a structured
\* result (an error string, or the analysis fields) and no exception escapes.
C1_StructuredResultNoEscape == Returned => StructuredResult(result)

\* a call whose connection probe raised ended with the catch-all error result
C1_Witness ==
    /\ Returned
    /\ probes = 1
    /\ "error" \in DOMAIN result
    /\ result.error = "Unexpected error during analysis"

\* a report of the given key has the shape of its type: a dict, no error
\* object, its list fields present
HasShape(key, report) ==
    /\ IsDict(report)
    /\ "error" \notin DOMAIN report
    /\ CASE key = "code_security" -> "vulnerabilities" \in DOMAIN report
         [] key = "attack_surface" ->
              {"external_calls", "permissions", "dependencies"} \subseteq DOMAIN report
         [] key = "cross_chain_activity" ->
              {"cross_chain_transfers", "bridge_interactions", "suspicious_patterns"}
                  \subseteq DOMAIN report
         [] key = "threats" -> {"known_attacks", "threat_indicators"} \subseteq DOMAIN report
         [] key = "behavioral_analysis" -> "behavioral_patterns" \in DOMAIN report

\* C2: also when a sub-analysis failed internally, the compiled result holds
\* all five report keys, each a real report or the empty default of its shape,
\* never an error object.
C2_EveryReportWellFormed ==
    (Returned /\ "risk_score" \in DOMAIN result) =>
        \A key \in ReportKeys : key \in DOMAIN result /\ HasShape(key, result[key])

\* C3: every result returned for valid inputs with resolved code carries a
\* risk_score in [0, 1].
C3_RiskScoreInUnitInterval ==
    (Returned /\ InputsValid /\ contract_code # None) =>
        /\ "risk_score" \in DOMAIN result
        /\ 0 <= result.risk_score
        /\ result.risk_score <= One

\* a scored result with findings, the behavioural analysis having failed
C3_Witness ==
    /\ Returned
    /\ block_outcome = "raises"
    /\ "risk_score" \in DOMAIN result
    /\ result.risk_score > 0
    /\ result.risk_score < One

\* C4: every result that carries a top-level error carries risk_score = 0.
C4_ErrorCarriesZeroRisk ==
    (Returned /\ "error" \in DOMAIN result) =>
        "risk_score" \in DOMAIN result /\ result.risk_score = 0

\* some sub-analysis has been started
SubAnalysisStarted ==
    pc = "gather" \/ order # <<>> \/ \E i \in Tasks : task_result[i] # Pending

\* C5: sub-analyses start only after a non-empty code payload was resolved;
\* when resolution fails the call has returned an error result and no
\* sub-analysis was started.
C5_NoSubAnalysisWithoutCode ==
    caller = "analyze_contract" =>
        /\ SubAnalysisStarted =>
              /\ InputsValid
              /\ contract_code # None
              /\ contract_code.len > 2
        /\ (pc \notin {"check_connection", "resolve", "attempt"} /\ contract_code = None) =>
              /\ pc = "returned"
              /\ "error" \in DOMAIN result
              /\ ~SubAnalysisStarted

\* the fetch returned "0x": the call ended with the error, nothing was started
C5_Witness ==
    /\ Returned
    /\ Len(fetchLog) = 1
    /\ fetchLog[1] = [hex |-> [len |-> 2, matches |-> {}]]
    /\ contract_code = None
    /\ "error" \in DOMAIN result
    /\ ~SubAnalysisStarted

\* C6: a failed fetch is retried: a resolution whose first fetch failed ends
\* either with a later fetch that succeeded (at the third attempt at the
\* latest) or, as a failure, only after the third attempt.
C6_FailureOnlyAfterThirdAttempt ==
    (pc = "returned" /\ fetchLog # <<>> /\ IsException(fetchLog[1])) =>
        LET n == Len(fetchLog) IN
        \/ n <= retry_count /\ ~IsException(fetchLog[n])
        \/ n = retry_count

\* the outcome "chain unavailable": of analyze_contract, or of the resolver
ChainUnavailable(r) ==
    \/ "error" \in DOMAIN r
         /\ r.error \in {"No connection available for chain", "Chain not supported"}
    \/ IsException(r) /\ r.raises = "ContractValidationError"
         /\ r.message = "Chain not supported"

\* C7: for a chain without a connection in the table the resolution makes no
\* fetch attempt, no retry and no backoff sleep, and ends chain-unavailable.
C7_UnavailableChainNoFetch ==
    (caller # "none" /\ ~InTable(chain, web3_connections)
        /\ (caller = "analyze_contract" => InputsValid))
    => /\ fetchLog = <<>>
       /\ sleeps = <<>>
       /\ attempt = 0
       /\ probes = 0
       /\ pc = "returned" => ChainUnavailable(result)

\* the resolver, called for an unsupported chain, raised without a fetch
C7_Witness ==
    /\ caller = "resolver"
    /\ pc = "returned"
    /\ chain = Str("unsupported-chain")
    /\ contract_address = ValidAddress
    /\ IsException(result)
    /\ fetchLog = <<>>

\* C8: a call whose address or chain is empty, no string or no well-formed
\* address ends in input validation: no liveness probe and no code fetch.
C8_InvalidInputNoNetwork ==
    (caller = "analyze_contract" /\ ~InputsValid) =>
        /\ probes = 0
        /\ fetchLog = <<>>
        /\ pc = "returned"
        /\ "error" \in DOMAIN result
        /\ result.error = "Invalid contract address or chain"

\* a malformed address on a connected chain was rejected without a probe
C8_Witness ==
    /\ Returned
    /\ contract_address = Str("0x123")
    /\ InTable(chain, web3_connections)
    /\ probes = 0
    /\ "error" \in DOMAIN result

\* the step of gathered task i
TaskAction(i) ==
    CASE i = 1 -> RunCodeSecurity
      [] i = 2 -> RunAttackSurface
      [] i = 3 -> RunCrossChain
      [] i = 4 -> RunThreatIntelligence
      [] i = 5 -> RunBehavioralPatterns

\* C9: the compiled result exists only once each of the five tasks has
\* finished; while the gather is open no result exists, every finished task
\* keeps its outcome and every unfinished task can still run, whichever tasks
\* have finished or failed before it.
C9_FanInBarrierIsolation ==
    caller = "analyze_contract" =>
        /\ (pc = "returned" /\ SubAnalysisStarted) =>
              /\ Range(order) = Tasks
              /\ \A i \in Tasks : task_result[i] # Pending
        /\ pc = "gather" =>
              /\ result = Pending
              /\ \A i \in Range(order) : task_result[i] # Pending
              /\ \A i \in Tasks \ Range(order) :
                    task_result[i] = Pending /\ ENABLED TaskAction(i)

\* the behavioural task failed first and the four others finished after it
C9_Witness ==
    /\ Returned
    /\ block_outcome = "raises"
    /\ Len(order) = 5
    /\ order[1] = 5
    /\ "error" \in DOMAIN task_result[5]
    /\ \A i \in 1..4 : HasShape(CHOOSE k \in ReportKeys : result[k] = task_result[i],
                                task_result[i])

\* this call saw the inputs and the chain state of the remembered call
SameRun ==
    /\ prev # NoPrev
    /\ prev.address = contract_address
    /\ prev.chain = chain
    /\ prev.code = contract_code
    /\ prev.block_outcome = block_outcome

\* C10: a call with the inputs, the fetched code and the sub-analysis
\* outcomes of an earlier call returns the earlier call's risk_score,
\* whatever the order in which the tasks of either call finished.
C10_DeterministicScore ==
    (Returned /\ "risk_score" \in DOMAIN result /\ SameRun) =>
        result.risk_score = prev.risk_score

\* two calls on the same state, one finishing its tasks in argument order and
\* one in the reverse order, with a positive score
C10_Witness ==
    /\ Returned
    /\ "risk_score" \in DOMAIN result
    /\ SameRun
    /\ prev.in_order
    /\ order = <<5, 4, 3, 2, 1>>
    /\ result.risk_score > 0


\* the weighted sum of the three component risks, times ten
TenfoldWeightedSum(code_security, attack_surface, behavior) ==
    4 * CalculateVulnerabilityRisk(code_security)
    + 3 * CalculateSurfaceRisk(attack_surface)
    + 3 * CalculateBehavioralRisk(behavior)

DelegatecallOnly == [vulnerabilities |-> <<Finding("delegatecall", "critical", 8)>>]

ClaimedSeverityWeight(severity) ==
    CASE severity = "critical" -> 10
      [] severity = "high" -> 8
      [] severity = "medium" -> 5
      [] severity = "low" -> 2

\* C12: vulnerability_risk is the mean over the findings of
\* severityWeight(severity) * confidence: 0 without findings, 1.0 for a single
\* critical finding of confidence 1.0.
C12_VulnerabilityRiskIsMean ==
    (caller = "_calculate_vulnerability_risk" /\ pc = "returned") =>
        LET findings == task_result[1].vulnerabilities
            products == [i \in DOMAIN findings |->
                            ClaimedSeverityWeight(findings[i].severity)
                            * findings[i].confidence]
        IN /\ findings = <<>> => result.returns = 0
           /\ result.returns * Len(findings) * 100 = SumSeq(products) * One
           /\ findings = <<Finding("delegatecall", "critical", 10)>> =>
                 result.returns = One

\* the risk of two findings of different severity has been computed
C12_Witness ==
    /\ caller = "_calculate_vulnerability_risk"
    /\ pc = "returned"
    /\ task_result[1].vulnerabilities =
           <<Finding("delegatecall", "critical", 10), Finding("informational", "low", 8)>>
    /\ result.returns * 100 = 58 * One


\* C13: when a sub-analysis failed, the compiled result holds the empty
\* default of its report, the risk_score is the score of the other reports
\* with the failed one empty, the scan's findings keep their contribution and
\* the result is no error result.
C13_FailureScoredAsEmptyDefault ==
    (Returned /\ SubAnalysisStarted /\ block_outcome = "raises") =>
        /\ "error" \notin DOMAIN result
        /\ "risk_score" \in DOMAIN result
        /\ HasShape("behavioral_analysis", result.behavioral_analysis)
        /\ result.risk_score * 10 =
              TenfoldWeightedSum(result.code_security, result.attack_surface,
                                 EmptyBehavior)
        /\ result.risk_score * 10 >= 4 * CalculateVulnerabilityRisk(result.code_security)


\* a fetch that answered with a payload of at most the "0x" prefix
ShortPayload(outcome) == "hex" \in DOMAIN outcome /\ outcome.hex.len <= 2

\* C14: a fetched payload that is empty or only the "0x" prefix makes the
\* resolver return not-found after that attempt: the fetch that saw it is the
\* last one, the call has returned, no backoff sleep was made for it, and the
\* outcome is None (the "Could not retrieve contract code" error result when
\* analyze_contract is the caller).
C14_ShortPayloadIsNotFound ==
    \A i \in DOMAIN fetchLog :
        ShortPayload(fetchLog[i]) =>
            /\ i = Len(fetchLog)
            /\ pc = "returned"
            /\ Len(sleeps) < i
            /\ caller = "resolver" => result = [returns |-> None]
            /\ caller = "analyze_contract" =>
                   /\ "error" \in DOMAIN result
                   /\ result.error = "Could not retrieve contract code"

C14_Witness ==
    /\ caller = "resolver"
    /\ pc = "returned"
    /\ fetchLog = <<[hex |-> [len |-> 2, matches |-> {}]]>>
    /\ result = [returns |-> None]


\* C15: called with an invalid address the resolver fails with the
\* invalid-address error and makes no network call, also when the chain is
\* unavailable.
C15_InvalidAddressTakesPrecedence ==
    (caller = "resolver" /\ pc = "returned" /\ ~IsAddress(contract_address)) =>
        /\ result = Raise("ContractValidationError", "Invalid contract address format")
        /\ fetchLog = <<>>


\* a fetch that raised
FetchFailed(outcome) == "raises" \in DOMAIN outcome

\* C16: a resolver call makes at most 3 fetches and ends; a backoff wait is
\* made only between two attempts, and failed attempt i (i = 1, 2) is
\* followed by a wait of i time units.
C16_BoundedAttemptsWithBackoff ==
    /\ Len(fetchLog) <= retry_count
    /\ Len(sleeps) < retry_count
    /\ pc = "returned" => Len(sleeps) < Max(1, Len(fetchLog))
    /\ \A i \in DOMAIN sleeps : sleeps[i] = i /\ FetchFailed(fetchLog[i])
    /\ \A i \in DOMAIN fetchLog :
           (FetchFailed(fetchLog[i]) /\ i < retry_count) =>
               Len(sleeps) >= i /\ sleeps[i] = i


ScanReturned == caller = "_analyze_code_security" /\ pc = "returned"

\* the scanned text with the failing detectors' matchers answering no match
WithoutFailing(code) == [code EXCEPT !.matches = @ \ code.failing, !.failing = {}]

\* C17: when the matcher of a detector fails, the scan still returns a report,
\* without a finding of that detector, and its findings are those of the scan
\* of the same text with the failing detector not matching.
C17_FailingDetectorSkipped ==
    (ScanReturned /\ contract_code # None) =>
        /\ "returns" \in DOMAIN result
        /\ "vulnerabilities" \in DOMAIN result.returns
        /\ \A i \in DOMAIN result.returns.vulnerabilities :
               result.returns.vulnerabilities[i].type \notin contract_code.failing
        /\ result.returns = AnalyzeCodeSecurity(WithoutFailing(contract_code))

C17_Witness ==
    /\ ScanReturned
    /\ contract_code # None
    /\ contract_code.failing = {"overflow"}
    /\ contract_code.matches = {"reentrancy", "overflow", "delegatecall"}
    /\ Len(result.returns.vulnerabilities) = 2

\* the static severity table as claimed
ClaimedSeverity(vuln_type) ==
    IF vuln_type \in {"reentrancy", "arbitrary_jump", "delegatecall", "self_destruct"}
    THEN "critical"
    ELSE IF vuln_type \in {"overflow", "unchecked_external_call"} THEN "high"
    ELSE "medium"

\* C18: the scan's findings are one per detector whose matcher matched, in
\* the order reentrancy, overflow, timestamp_dependency,
\* unchecked_external_call, arbitrary_jump, delegatecall, self_destruct, each
\* with confidence 0.8 and the severity of the static table.
C18_OneFindingPerMatchInDeclarationOrder ==
    (ScanReturned /\ contract_code # None) =>
        LET found == result.returns.vulnerabilities
            expected == SelectSeq(
                <<"reentrancy", "overflow", "timestamp_dependency",
                  "unchecked_external_call", "arbitrary_jump", "delegatecall",
                  "self_destruct">>,
                LAMBDA d : d \in contract_code.matches \ contract_code.failing)
        IN /\ Len(found) = Len(expected)
           /\ \A i \in DOMAIN found :
                  /\ found[i].type = expected[i]
                  /\ found[i].confidence = 8
                  /\ found[i].severity = ClaimedSeverity(expected[i])

C18_Witness ==
    /\ ScanReturned
    /\ contract_code # None
    /\ contract_code.matches = DetectorNames
    /\ contract_code.failing = {}
    /\ Len(result.returns.vulnerabilities) = 7


\* the probe of `network` that answered true first (0 when none did)
FirstLive(network) ==
    LET made == ProbesOf(probeLog, network)
        live == {i \in DOMAIN made : made[i].outcome = "true"}
    IN IF live = {} THEN 0 ELSE CHOOSE i \in live : \A j \in live : i <= j

C21_ResultsShareNothing ==
    /\ vulnerability_patterns = Detectors
    /\ (Returned /\ "risk_score" \in DOMAIN result) =>
           /\ ~IsSelfRef(result.threats.threat_indicators.high_risk_patterns)
           /\ Len(result.code_security.vulnerabilities) =
                  Cardinality(contract_code.matches)


\* C22: in every result that carries a score, the behaviour report has no
\* behavioral_patterns or only patterns of type transaction_frequency, and
\* the risk_score is clamp01(0.4 * vulnerability_risk + 0.3 * surface_risk):
\* the behavioural component adds nothing.
C22_BehaviourContributesNothing ==
    (Returned /\ "risk_score" \in DOMAIN result) =>
        LET behavior == result.behavioral_analysis
            tenfold == 4 * CalculateVulnerabilityRisk(result.code_security)
                       + 3 * CalculateSurfaceRisk(result.attack_surface)
        IN /\ \/ "behavioral_patterns" \notin DOMAIN behavior
              \/ \A i \in DOMAIN behavior.behavioral_patterns :
                     behavior.behavioral_patterns[i].type = "transaction_frequency"
           /\ result.risk_score * 10 = Max(0, Min(10 * One, tenfold))

\* a scored result whose behaviour report holds a pattern and whose scan
\* found something
C22_Witness ==
    /\ Returned
    /\ "risk_score" \in DOMAIN result
    /\ "behavioral_patterns" \in DOMAIN result.behavioral_analysis
    /\ Len(result.behavioral_analysis.behavioral_patterns) = 1
    /\ result.risk_score > 0

====
